---- MODULE Spec2Model ----
(***************************************************************************)
(* Model of packages/algob/src/lib/tx.ts: resolution of the network        *)
(* parameters (getSuggestedParams, mkTxParams), note precedence of         *)
(* makeAssetCreateTxn, signature dispatch (signTransaction), and the two   *)
(* submission entry points executeTransaction / executeSignedTxnFromFile.  *)
(*                                                                         *)
(* An optional value (TypeScript `T | undefined`) is a sequence of length  *)
(* at most one: <<>> is undefined, <<v>> is the value v.                   *)
(***************************************************************************)
EXTENDS Integers, Sequences, FiniteSets, TLC

VARIABLES
  pc,               \* position of the call in progress ("idle" between calls)
  call,             \* entry point of the call in progress
  isList,           \* Array.isArray(execParams)
  execParams,       \* the ExecParams entries of the call (one entry for a single ExecParams)
  raw,              \* optional: the raw params handed in or returned by the network client
  suggestedParams,  \* optional: the snapshot held by executeTransaction
  userParams,       \* the TxParams argument of a direct mkTxParams call
  result,           \* optional: the value returned by a direct call
  txns,             \* unsigned transactions built so far
  signedTxn,        \* signed blobs produced so far
  nMk,              \* number of mkTransaction invocations of the call
  nSign,            \* number of signTransaction invocations of the call
  netLog,           \* calls made on the network client during the call, in order
  txId,             \* optional: transaction id returned by sendRawTransaction
  waited,           \* rounds polled by waitForConfirmation
  err,              \* the error the call ended with ("" when none)
  noteArgs          \* the four note fields of a makeAssetCreateTxn call

vars == <<pc, call, isList, execParams, raw, suggestedParams, userParams, result,
          txns, signedTxn, nMk, nSign, netLog, txId, waited, err, noteArgs>>

-----------------------------------------------------------------------------
(* Bounds of the model *)

\* lists of up to MaxMixedLen entries are drawn with every mix of entries
MaxMixedLen == 2
\* longer lists, up to MaxListLen entries, repeat one entry
MaxListLen == 17
\* rounds waitForConfirmation polls before it gives up
MaxWaitRounds == 2

(* Program constants *)

\* "Maximum size of an atomic transfer group is 16"
MaxGroupSize == 16
\* ALGORAND_MIN_TX_FEE of ./algo-operator
ALGORAND_MIN_TX_FEE == 1000

-----------------------------------------------------------------------------
(* Optional values *)

Undefined == <<>>
Some(v) == <<v>>
\* a ?? b
Coalesce(a, b) == IF a # Undefined THEN a ELSE b
Max(a, b) == IF a >= b THEN a ELSE b

-----------------------------------------------------------------------------
(* Inputs *)

\* raw params the network client can return; firstRound 0 is a node that does not progress
RawParamsSet ==
  { [firstRound |-> f, lastRound |-> f + 1000, fee |-> 0, flatFee |-> FALSE] : f \in {0, 1, 500} }

OptFee == {Undefined, Some(0), Some(10), Some(5000)}
OptRound == {Undefined, Some(0), Some(100), Some(2000)}
OptValid == {Undefined, Some(0), Some(50)}

\* TxParams of a direct mkTxParams call
TxParamsSet ==
  [totalFee : OptFee, feePerByte : OptFee, firstValid : OptRound, validRounds : OptValid]

NoFlags ==
  [totalFee |-> Undefined, feePerByte |-> Undefined, firstValid |-> Undefined, validRounds |-> Undefined]

\* payFlags of the entries of an executeTransaction call
PayFlagsSet ==
  { NoFlags,
    [NoFlags EXCEPT !.totalFee = Some(5000)],
    [NoFlags EXCEPT !.feePerByte = Some(10), !.firstValid = Some(100), !.validRounds = Some(50)] }

SignTypes == {"SecretKey", "LogicSignature", "Other"}

\* one ExecParams entry: sign type, whether lsig is passed, payFlags, and whether
\* the domain fields are well formed (mkTransaction accepts them)
ExecParamsSet ==
  { [sign |-> s, lsig |-> l, payFlags |-> f, wellFormed |-> w] :
      s \in SignTypes, l \in BOOLEAN, f \in PayFlagsSet, w \in BOOLEAN }

Repeat(e, n) == [i \in 1..n |-> e]

ExecParamsLists ==
  UNION { [1..n -> ExecParamsSet] : n \in 1..MaxMixedLen }
    \cup { <<a, b, a>> : a \in ExecParamsSet, b \in ExecParamsSet }
    \cup { Repeat(e, n) : e \in ExecParamsSet, n \in (MaxMixedLen + 1)..MaxListLen }

\* what the file loader can return: nothing, or the blob stored in the file
FileTxn == [idx |-> 0, params |-> [firstRound |-> 1, lastRound |-> 1001, fee |-> 1000, flatFee |-> TRUE],
            group |-> Undefined]
FileBlob == [txn |-> FileTxn, sig |-> "sk"]
LoadedFiles == {Undefined, Some(FileBlob), Some([FileBlob EXCEPT !.sig = "lsig"])}

\* note fields; the values differ per field so that the result shows its origin
FlagsNotes == {Undefined, Some(""), Some("a")}
FlagsNotesB64 == {Undefined, Some(""), Some("Yg==")}
AsaNotes == {Undefined, Some(""), Some("c")}
AsaNotesB64 == {Undefined, Some(""), Some("ZA==")}

-----------------------------------------------------------------------------
(* ParamsResolver: getSuggestedParams, mkTxParams *)

\* outcome of algocl.getTransactionParams().do(): the raw params, or Undefined
\* when the request itself fails
NetFetch == {Undefined} \cup { Some(r) : r \in RawParamsSet }

\* getSuggestedParams on a fetch outcome f: the error thrown ("" for none) and the value returned
GetSuggestedParams(f) ==
  IF f = Undefined THEN [err |-> "NetworkError", value |-> Undefined]
  ELSE IF f[1].firstRound = 0 THEN [err |-> "StaleNetwork", value |-> Undefined]
  ELSE [err |-> "", value |-> f]

\* a flat fee that is not raised to the minimum
MkTxParams_NoClamp(u, s) ==
  LET flatFee == u.totalFee # Undefined
      fee == Coalesce(u.totalFee, Coalesce(u.feePerByte, Some(ALGORAND_MIN_TX_FEE)))[1]
      firstRound == Coalesce(u.firstValid, Some(s.firstRound))[1]
      lastRound == IF u.firstValid = Undefined \/ u.validRounds = Undefined
                   THEN s.lastRound
                   ELSE u.firstValid[1] + u.validRounds[1]
  IN [firstRound |-> firstRound, lastRound |-> lastRound, fee |-> fee, flatFee |-> flatFee]

\* validRounds applied to the raw firstRound when firstValid is not supplied
MkTxParams_ValidRoundsAlone(u, s) ==
  LET flatFee == u.totalFee # Undefined
      fee0 == Coalesce(u.totalFee, Coalesce(u.feePerByte, Some(ALGORAND_MIN_TX_FEE)))[1]
      fee == IF flatFee THEN Max(fee0, ALGORAND_MIN_TX_FEE) ELSE fee0
      firstRound == Coalesce(u.firstValid, Some(s.firstRound))[1]
      lastRound == IF u.validRounds = Undefined
                   THEN s.lastRound
                   ELSE firstRound + u.validRounds[1]
  IN [firstRound |-> firstRound, lastRound |-> lastRound, fee |-> fee, flatFee |-> flatFee]

\* every fee raised to the minimum, flat or not
MkTxParams_AlwaysClamp(u, s) ==
  LET flatFee == u.totalFee # Undefined
      fee0 == Coalesce(u.totalFee, Coalesce(u.feePerByte, Some(ALGORAND_MIN_TX_FEE)))[1]
      firstRound == Coalesce(u.firstValid, Some(s.firstRound))[1]
      lastRound == IF u.firstValid = Undefined \/ u.validRounds = Undefined
                   THEN s.lastRound
                   ELSE u.firstValid[1] + u.validRounds[1]
  IN [firstRound |-> firstRound, lastRound |-> lastRound,
      fee |-> Max(fee0, ALGORAND_MIN_TX_FEE), flatFee |-> flatFee]

\* validRounds taken as the last round itself
MkTxParams_LastIsValidRounds(u, s) ==
  LET flatFee == u.totalFee # Undefined
      fee0 == Coalesce(u.totalFee, Coalesce(u.feePerByte, Some(ALGORAND_MIN_TX_FEE)))[1]
      fee == IF flatFee THEN Max(fee0, ALGORAND_MIN_TX_FEE) ELSE fee0
      firstRound == Coalesce(u.firstValid, Some(s.firstRound))[1]
      lastRound == IF u.firstValid = Undefined \/ u.validRounds = Undefined
                   THEN s.lastRound
                   ELSE u.validRounds[1]
  IN [firstRound |-> firstRound, lastRound |-> lastRound, fee |-> fee, flatFee |-> flatFee]

\* the body of mkTxParams once s is defined
MkTxParams(u, s) ==
  LET flatFee == u.totalFee # Undefined
      fee0 == Coalesce(u.totalFee, Coalesce(u.feePerByte, Some(ALGORAND_MIN_TX_FEE)))[1]
      fee == IF flatFee THEN Max(fee0, ALGORAND_MIN_TX_FEE) ELSE fee0
      firstRound == Coalesce(u.firstValid, Some(s.firstRound))[1]
      lastRound == IF u.firstValid = Undefined \/ u.validRounds = Undefined
                   THEN s.lastRound
                   ELSE u.firstValid[1] + u.validRounds[1]
  IN [firstRound |-> firstRound, lastRound |-> lastRound, fee |-> fee, flatFee |-> flatFee]

-----------------------------------------------------------------------------
(* NoteEncoder: encodeNote, and the precedence applied by makeAssetCreateTxn *)

Utf8 == [s \in {"", "a", "c"} |-> IF s = "" THEN <<>> ELSE IF s = "a" THEN <<97>> ELSE <<99>>]
B64Decode == [s \in {"", "Yg==", "ZA=="} |-> IF s = "" THEN <<>> ELSE IF s = "Yg==" THEN <<98>> ELSE <<100>>]

\* encodeNote(note, noteb64) of the runtime package
EncodeNote(note, noteb64) ==
  IF noteb64 # Undefined THEN Some(B64Decode[noteb64[1]])
  ELSE IF note # Undefined THEN Some(Utf8[note[1]])
  ELSE Undefined

\* JavaScript truthiness of an optional string: undefined and "" are falsy
Truthy(x) == x # Undefined /\ x[1] # ""

\* the note makeAssetCreateTxn hands to the SDK
AssetCreateNote(a) ==
  IF Truthy(Coalesce(a.flagsNoteb64, a.flagsNote))
  THEN EncodeNote(a.flagsNote, a.flagsNoteb64)
  ELSE IF Truthy(Coalesce(a.asaNoteb64, a.asaNote))
  THEN EncodeNote(a.asaNote, a.asaNoteb64)
  ELSE Undefined

-----------------------------------------------------------------------------
(* TransactionBuilder, AtomicGroupCoordinator, TransactionSigner *)

\* a build that is not handed the snapshot, so that mkTxParams fetches again
BuildArg_None(snapshot) == Undefined

\* the s argument mkTx passes to mkTxParams: a copy of the snapshot
BuildArg(snapshot) == Some(snapshot)

\* the snapshot itself is handed to mkTxParams, which writes the resolved params into it
SnapshotAfterBuild_Aliased(snapshot, r) == r

\* Object.assign({}, suggestedParams): what the snapshot holds after a build
\* that resolved the params r on its own copy
SnapshotAfterBuild(snapshot, r) == snapshot

\* mkTransaction(p, params) for entry i: Undefined when it throws
MkTransaction(p, i, params) ==
  IF p.wellFormed THEN Some([idx |-> i, params |-> params, group |-> Undefined]) ELSE Undefined

\* the group id: a hash of the ordered transactions
ComputeGroupID(ts) == [i \in DOMAIN ts |-> <<ts[i].idx, ts[i].params>>]

\* algosdk.assignGroupID(txns)
AssignGroupID(ts) == [i \in DOMAIN ts |-> [ts[i] EXCEPT !.group = Some(ComputeGroupID(ts))]]

\* a signer that does not require lsig and treats every other type as SecretKey
SignTransaction_Lenient(txn, p) ==
  IF p.sign = "LogicSignature"
  THEN [err |-> "", blob |-> Some([txn |-> txn, sig |-> "lsig"])]
  ELSE [err |-> "", blob |-> Some([txn |-> txn, sig |-> "sk"])]

\* signTransaction(txn, p): the error thrown ("" for none) and the blob returned
SignTransaction(txn, p) ==
  CASE p.sign = "SecretKey" -> [err |-> "", blob |-> Some([txn |-> txn, sig |-> "sk"])]
    [] p.sign = "LogicSignature" ->
         IF ~p.lsig THEN [err |-> "MissingLogicSig", blob |-> Undefined]
         ELSE [err |-> "", blob |-> Some([txn |-> txn, sig |-> "lsig"])]
    [] OTHER -> [err |-> "UnknownSignType", blob |-> Undefined]

\* the transaction id the network reports for a submission
TxIdOf(blobs) == blobs[1].txn.idx

-----------------------------------------------------------------------------
(* State *)

NoNotes == [flagsNote |-> Undefined, flagsNoteb64 |-> Undefined,
            asaNote |-> Undefined, asaNoteb64 |-> Undefined]

Init ==
  /\ pc = "idle"
  /\ call = ""
  /\ isList = FALSE
  /\ execParams = <<>>
  /\ raw = Undefined
  /\ suggestedParams = Undefined
  /\ userParams = NoFlags
  /\ result = Undefined
  /\ txns = <<>>
  /\ signedTxn = <<>>
  /\ nMk = 0
  /\ nSign = 0
  /\ netLog = <<>>
  /\ txId = Undefined
  /\ waited = 0
  /\ err = ""
  /\ noteArgs = NoNotes

Fail(e) == pc' = "failed" /\ err' = e

-----------------------------------------------------------------------------
(* Direct calls of the exported helpers *)

\* getSuggestedParams(algocl)
GetSuggestedParamsCall ==
  /\ pc = "idle"
  /\ \E f \in NetFetch :
       LET g == GetSuggestedParams(f) IN
         /\ call' = "getSuggestedParams"
         /\ netLog' = <<[op |-> "getTransactionParams"]>>
         /\ raw' = f
         /\ result' = g.value
         /\ err' = g.err
         /\ pc' = IF g.err = "" THEN "done" ELSE "failed"
  /\ UNCHANGED <<isList, execParams, suggestedParams, userParams, txns, signedTxn,
                 nMk, nSign, txId, waited, noteArgs>>

\* mkTxParams(algocl, u, s)
MkTxParamsCall ==
  /\ pc = "idle"
  /\ \E u \in TxParamsSet, s \in {Undefined} \cup { Some(r) : r \in RawParamsSet } :
       /\ call' = "mkTxParams"
       /\ userParams' = u
       /\ IF s = Undefined
          THEN \E f \in NetFetch :
                 LET g == GetSuggestedParams(f) IN
                   /\ netLog' = <<[op |-> "getTransactionParams"]>>
                   /\ raw' = f
                   /\ err' = g.err
                   /\ result' = IF g.err = "" THEN Some(MkTxParams(u, g.value[1])) ELSE Undefined
                   /\ pc' = IF g.err = "" THEN "done" ELSE "failed"
          ELSE /\ netLog' = <<>>
               /\ raw' = s
               /\ err' = ""
               /\ result' = Some(MkTxParams(u, s[1]))
               /\ pc' = "done"
  /\ UNCHANGED <<isList, execParams, suggestedParams, txns, signedTxn,
                 nMk, nSign, txId, waited, noteArgs>>

\* makeAssetCreateTxn(name, asaDef, flags, txSuggestedParams)
MakeAssetCreateTxnCall ==
  /\ pc = "idle"
  /\ \E n \in FlagsNotes, nb \in FlagsNotesB64, an \in AsaNotes, anb \in AsaNotesB64 :
       LET a == [flagsNote |-> n, flagsNoteb64 |-> nb, asaNote |-> an, asaNoteb64 |-> anb] IN
         /\ noteArgs' = a
         /\ result' = Some([note |-> AssetCreateNote(a)])
  /\ call' = "makeAssetCreateTxn"
  /\ pc' = "done"
  /\ UNCHANGED <<isList, execParams, raw, suggestedParams, userParams, txns, signedTxn,
                 nMk, nSign, netLog, txId, waited, err>>

-----------------------------------------------------------------------------
(* executeTransaction(deployer, execParams) *)

\* the call is entered with a single ExecParams or with a list
ExecuteTransaction ==
  /\ pc = "idle"
  /\ \E l \in ExecParamsLists, single \in BOOLEAN :
       /\ single => Len(l) = 1
       /\ execParams' = l
       /\ isList' = ~single
  /\ call' = "executeTransaction"
  /\ pc' = "fetch"
  /\ UNCHANGED <<raw, suggestedParams, userParams, result, txns, signedTxn,
                 nMk, nSign, netLog, txId, waited, err, noteArgs>>

\* const suggestedParams = await getSuggestedParams(deployer.algodClient)
FetchParams ==
  /\ pc = "fetch"
  /\ \E f \in NetFetch :
       LET g == GetSuggestedParams(f) IN
         /\ netLog' = Append(netLog, [op |-> "getTransactionParams"])
         /\ raw' = f
         /\ suggestedParams' = g.value
         /\ err' = g.err
         /\ pc' = IF g.err = "" THEN "check" ELSE "failed"
  /\ UNCHANGED <<call, isList, execParams, userParams, result, txns, signedTxn,
                 nMk, nSign, txId, waited, noteArgs>>

\* if (Array.isArray(execParams)) { if (execParams.length > 16) throw ... }
GroupSizeExceeded(list, l) == list /\ Len(l) > MaxGroupSize

CheckGroupSize ==
  /\ pc = "check"
  /\ IF GroupSizeExceeded(isList, execParams)
     THEN Fail("GroupSizeExceeded")
     ELSE pc' = "build" /\ err' = err
  /\ UNCHANGED <<call, isList, execParams, raw, suggestedParams, userParams, result, txns,
                 signedTxn, nMk, nSign, netLog, txId, waited, noteArgs>>

\* signing without a group id
AfterBuild_NoGroup(list) == "sign"

\* the phase that follows the build of the last entry
AfterBuild(list) == IF list THEN "group" ELSE "sign"

\* txns.push(await mkTx(t)), resp. const txn = await mkTx(execParams)
Build ==
  /\ pc = "build"
  /\ LET i == Len(txns) + 1
         p == execParams[i]
         s == BuildArg(suggestedParams[1])
     IN \E f \in (IF s = Undefined THEN NetFetch ELSE {s}) :
          \* mkTxParams: if (s === undefined) { s = await getSuggestedParams(algocl); }
          LET g == IF s = Undefined THEN GetSuggestedParams(f) ELSE [err |-> "", value |-> s]
          IN /\ netLog' = IF s = Undefined
                          THEN Append(netLog, [op |-> "getTransactionParams"])
                          ELSE netLog
             /\ IF g.err # ""
                THEN Fail(g.err) /\ UNCHANGED <<txns, nMk, suggestedParams>>
                ELSE LET r == MkTxParams(p.payFlags, g.value[1])
                         t == MkTransaction(p, i, r)
                     IN /\ nMk' = nMk + 1
                        /\ suggestedParams' = Some(SnapshotAfterBuild(suggestedParams[1], r))
                        /\ IF t = Undefined
                           THEN Fail("InvalidTransaction") /\ txns' = txns
                           ELSE /\ txns' = Append(txns, t[1])
                                /\ err' = err
                                /\ pc' = IF i = Len(execParams)
                                         THEN AfterBuild(isList) ELSE "build"
  /\ UNCHANGED <<call, isList, execParams, raw, userParams, result, signedTxn,
                 nSign, txId, waited, noteArgs>>

\* txns = algosdk.assignGroupID(txns)
Group ==
  /\ pc = "group"
  /\ txns' = AssignGroupID(txns)
  /\ pc' = "sign"
  /\ UNCHANGED <<call, isList, execParams, raw, suggestedParams, userParams, result,
                 signedTxn, nMk, nSign, netLog, txId, waited, err, noteArgs>>

\* the entry whose credentials sign transaction i
SignerOf(l, i) == l[i]

\* signTransaction(txn, execParams[index]), resp. signTransaction(txn, execParams)
Sign ==
  /\ pc = "sign"
  /\ LET i == Len(signedTxn) + 1
         g == SignTransaction(txns[i], SignerOf(execParams, i))
     IN /\ nSign' = nSign + 1
        /\ IF g.err # ""
           THEN Fail(g.err) /\ signedTxn' = signedTxn
           ELSE /\ signedTxn' = Append(signedTxn, g.blob[1])
                /\ err' = err
                /\ pc' = IF i = Len(txns) THEN "send" ELSE "sign"
  /\ UNCHANGED <<call, isList, execParams, raw, suggestedParams, userParams, result, txns,
                 nMk, netLog, txId, waited, noteArgs>>

-----------------------------------------------------------------------------
(* executeSignedTxnFromFile(deployer, fileName) *)

ExecuteSignedTxnFromFile ==
  /\ pc = "idle"
  /\ call' = "executeSignedTxnFromFile"
  /\ \E b \in LoadedFiles :
       IF b = Undefined
       THEN Fail("FileNotFound") /\ signedTxn' = signedTxn
       ELSE signedTxn' = b /\ pc' = "send" /\ err' = err
  /\ UNCHANGED <<isList, execParams, raw, suggestedParams, userParams, result, txns,
                 nMk, nSign, netLog, txId, waited, noteArgs>>

-----------------------------------------------------------------------------
(* sendAndWait(deployer, rawTxns) *)

\* a submission that carries the first blob only
RawTxns_FirstOnly(list, blobs) == [batched |-> list, blobs |-> <<blobs[1]>>]

\* every submission sent as an array
RawTxns_Batched(list, blobs) == [batched |-> TRUE, blobs |-> blobs]

\* a submission that carries the blobs in reverse order
RawTxns_Reversed(list, blobs) ==
  [batched |-> list, blobs |-> [i \in DOMAIN blobs |-> blobs[Len(blobs) + 1 - i]]]

\* the argument of sendRawTransaction: an array for a list call, one blob otherwise
RawTxns(list, blobs) == [batched |-> list, blobs |-> blobs]

\* const txInfo = await deployer.algodClient.sendRawTransaction(rawTxns).do()
Send ==
  /\ pc = "send"
  /\ netLog' = Append(netLog, [op |-> "sendRawTransaction", arg |-> RawTxns(isList, signedTxn)])
  /\ \E ok \in BOOLEAN :
       IF ok
       THEN txId' = Some(TxIdOf(signedTxn)) /\ pc' = "wait" /\ err' = err
       ELSE Fail("SendFailed") /\ txId' = txId
  /\ UNCHANGED <<call, isList, execParams, raw, suggestedParams, userParams, result, txns,
                 signedTxn, nMk, nSign, waited, noteArgs>>

\* return await deployer.waitForConfirmation(txInfo.txId)
WaitForConfirmation ==
  /\ pc = "wait"
  /\ netLog' = Append(netLog, [op |-> "waitForConfirmation", arg |-> txId[1]])
  /\ pc' = "polling"
  /\ UNCHANGED <<call, isList, execParams, raw, suggestedParams, userParams, result, txns,
                 signedTxn, nMk, nSign, txId, waited, err, noteArgs>>

\* a wait that never gives up
TimedOut_Never(w) == FALSE

\* the maximum number of rounds has elapsed
TimedOut(w) == w >= MaxWaitRounds

\* a round passes without the transaction being included
PollRound ==
  /\ pc = "polling"
  /\ ~TimedOut(waited)
  /\ waited < MaxWaitRounds
  /\ waited' = waited + 1
  /\ UNCHANGED <<pc, call, isList, execParams, raw, suggestedParams, userParams, result, txns,
                 signedTxn, nMk, nSign, netLog, txId, err, noteArgs>>

\* the transaction is included: the ConfirmationResult is returned
Confirmed ==
  /\ pc = "polling"
  /\ result' = Some([txId |-> txId[1], round |-> waited + 1])
  /\ pc' = "confirmed"
  /\ UNCHANGED <<call, isList, execParams, raw, suggestedParams, userParams, txns,
                 signedTxn, nMk, nSign, netLog, txId, waited, err, noteArgs>>

\* the maximum number of rounds elapsed without inclusion
ConfirmationTimeout ==
  /\ pc = "polling"
  /\ TimedOut(waited)
  /\ Fail("ConfirmationTimeout")
  /\ UNCHANGED <<call, isList, execParams, raw, suggestedParams, userParams, result, txns,
                 signedTxn, nMk, nSign, netLog, txId, waited, noteArgs>>

-----------------------------------------------------------------------------

Ended == pc \in {"done", "confirmed", "failed"}

\* the call returns or throws; nothing of it is kept
Return ==
  /\ Ended
  /\ pc' = "idle"
  /\ call' = ""
  /\ isList' = FALSE
  /\ execParams' = <<>>
  /\ raw' = Undefined
  /\ suggestedParams' = Undefined
  /\ userParams' = NoFlags
  /\ result' = Undefined
  /\ txns' = <<>>
  /\ signedTxn' = <<>>
  /\ nMk' = 0
  /\ nSign' = 0
  /\ netLog' = <<>>
  /\ txId' = Undefined
  /\ waited' = 0
  /\ err' = ""
  /\ noteArgs' = NoNotes

Next ==
  \/ GetSuggestedParamsCall
  \/ MkTxParamsCall
  \/ MakeAssetCreateTxnCall
  \/ ExecuteTransaction
  \/ FetchParams
  \/ CheckGroupSize
  \/ Build
  \/ Group
  \/ Sign
  \/ ExecuteSignedTxnFromFile
  \/ Send
  \/ WaitForConfirmation
  \/ PollRound
  \/ Confirmed
  \/ ConfirmationTimeout
  \/ Return

Spec == Init /\ [][Next]_vars

\* the continuation of an awaited call runs, and the network keeps producing rounds
FairSpec ==
  Spec /\ WF_vars(WaitForConfirmation) /\ WF_vars(PollRound) /\ WF_vars(ConfirmationTimeout)

-----------------------------------------------------------------------------
(* Properties *)

IsExec == call = "executeTransaction"
Sends == { k \in DOMAIN netLog : netLog[k].op = "sendRawTransaction" }
NumSends == Cardinality(Sends)

\* the errors raised before sendRawTransaction is reached
PreSubmissionErrors ==
  {"NetworkError", "StaleNetwork", "GroupSizeExceeded", "InvalidTransaction",
   "MissingLogicSig", "UnknownSignType"}

\* C1: executeTransaction invokes sendRawTransaction only once every entry of the
\* call has been built and signed, and the submission carries the signed blob of
\* every entry; a call that fails before submission has sent nothing.
C1_NoPartialSubmission ==
  IsExec =>
    /\ \A k \in Sends :
         /\ nMk = Len(execParams)
         /\ nSign = Len(execParams)
         /\ Len(netLog[k].arg.blobs) = Len(execParams)
         /\ \A i \in DOMAIN execParams : netLog[k].arg.blobs[i].txn = txns[i]
    /\ (pc = "failed" /\ err \in PreSubmissionErrors) => NumSends = 0

\* a group of two or more entries has been submitted
C1_Witness ==
  IsExec /\ isList /\ Len(execParams) >= 2 /\ NumSends = 1

\* C2 (as claimed): a list of 17 or more entries fails with the group-size error,
\* with no mkTransaction, signTransaction or sendRawTransaction invocation.
C2_Original ==
  (IsExec /\ isList /\ Len(execParams) >= 17) =>
    /\ nMk = 0 /\ nSign = 0 /\ NumSends = 0
    /\ pc \in {"fetch", "check", "failed"}
    /\ pc = "failed" => err = "GroupSizeExceeded"

\* C3 (as claimed): when the group-size error is raised, no call to the network
\* client has been made.
C3_Original ==
  (IsExec /\ pc = "failed" /\ err = "GroupSizeExceeded") => netLog = <<>>

\* C4 (as claimed): a call with one entry, list or not, assigns no group id and
\* submits the blob individually.
C4_Original ==
  (IsExec /\ Len(execParams) = 1) =>
    /\ \A i \in DOMAIN txns : txns[i].group = Undefined
    /\ \A k \in Sends : ~netLog[k].arg.batched

\* C5 (as claimed): whenever the raw params have firstRound 0, the call fails
\* with the stale-network error, returns no params, and builds, signs and
\* submits nothing.
C5_Original ==
  (call \in {"getSuggestedParams", "mkTxParams", "executeTransaction"}
     /\ raw # Undefined /\ raw[1].firstRound = 0) =>
    /\ pc = "failed" /\ err = "StaleNetwork"
    /\ result = Undefined
    /\ nMk = 0 /\ nSign = 0 /\ NumSends = 0

Rank(p) ==
  CASE p = "idle" -> 0 [] p = "fetch" -> 1 [] p = "check" -> 2 [] p = "build" -> 3
    [] p = "group" -> 4 [] p = "sign" -> 5 [] p = "send" -> 6 [] p = "wait" -> 7
    [] p = "polling" -> 8 [] OTHER -> 9

SigOf(sign) == IF sign = "SecretKey" THEN "sk" ELSE "lsig"

\* in a list call: the group id is assigned once every entry is built, every
\* transaction carries the one group id before any is signed, and blob i is
\* transaction i signed with the strategy of execParams[i]
C6_Inv ==
  (IsExec /\ isList) =>
    /\ (\E i \in DOMAIN txns : txns[i].group # Undefined) =>
         nMk = Len(execParams) /\ Len(txns) = Len(execParams)
    /\ nSign > 0 =>
         /\ Len(txns) = Len(execParams)
         /\ \A i \in DOMAIN txns :
              txns[i].group # Undefined /\ txns[i].group = txns[1].group
    /\ \A i \in DOMAIN signedTxn :
         /\ signedTxn[i].txn = txns[i]
         /\ txns[i].idx = i
         /\ execParams[i].sign \in {"SecretKey", "LogicSignature"}
         /\ signedTxn[i].sig = SigOf(execParams[i].sign)

\* a list call only moves forward through its phases
C6_Step ==
  (IsExec /\ isList) =>
    /\ pc' = "idle" \/ Rank(pc') >= Rank(pc)
    /\ pc = "build" => pc' \in {"build", "group", "failed"}
    /\ pc = "group" => pc' = "sign"
    /\ pc = "sign" => pc' \in {"sign", "send", "failed"}
    /\ pc = "send" => pc' \in {"wait", "failed"}
    /\ pc \in {"wait", "polling"} => pc' \in {"polling", "confirmed", "failed"}
    /\ Ended => pc' = "idle"

\* C6: a list call goes Building -> Grouped -> Signed -> Submitted ->
\* Confirmed | Failed and never back; all entries are built before the group id
\* is assigned, one shared group id is on every transaction before any is
\* signed, and transaction i is signed with the SignType of execParams[i].
C6_PhaseOrder == []C6_Inv /\ [][C6_Step]_vars

\* a confirmed group mixing a SecretKey entry and a LogicSignature entry
C6_Witness ==
  /\ IsExec /\ isList /\ pc = "confirmed"
  /\ Len(execParams) = 2
  /\ execParams[1].sign = "SecretKey" /\ execParams[2].sign = "LogicSignature"

\* C7: a LogicSignature entry without lsig fails with the missing-logic-signature
\* error, any sign type other than SecretKey and LogicSignature fails with the
\* unknown-sign-type error; the signing stops there without a blob for the
\* entry, and the call fails without submitting the blobs already signed.
C7_SignErrors ==
  IsExec =>
    \A i \in 1..nSign :
      LET p == execParams[i]
          missing == p.sign = "LogicSignature" /\ ~p.lsig
          unknown == p.sign \notin {"SecretKey", "LogicSignature"}
      IN /\ missing => pc = "failed" /\ err = "MissingLogicSig"
         /\ unknown => pc = "failed" /\ err = "UnknownSignType"
         /\ (missing \/ unknown) => i = nSign /\ Len(signedTxn) = i - 1 /\ NumSends = 0

\* the second entry of a group fails to sign after the first was signed
C7_Witness ==
  /\ IsExec /\ pc = "failed" /\ err \in {"MissingLogicSig", "UnknownSignType"}
  /\ Len(signedTxn) >= 1

\* the params resolved for the call: by a direct mkTxParams call, or by the
\* builds of executeTransaction, as <<userParams, resolved params>> pairs
Resolved ==
  IF call = "mkTxParams" /\ pc = "done" THEN { <<userParams, result[1]>> }
  ELSE IF IsExec THEN { <<execParams[i].payFlags, txns[i].params>> : i \in DOMAIN txns }
  ELSE {}

\* C8: with totalFee present, whatever feePerByte is, the resolved params have
\* flatFee = true and fee = max(totalFee, ALGORAND_MIN_TX_FEE).
C8_TotalFee ==
  \A ur \in Resolved :
    ur[1].totalFee # Undefined =>
      /\ ur[2].flatFee = TRUE
      /\ ur[2].fee = IF ur[1].totalFee[1] < ALGORAND_MIN_TX_FEE
                    THEN ALGORAND_MIN_TX_FEE ELSE ur[1].totalFee[1]

\* a totalFee below the minimum together with a larger feePerByte
C8_Witness ==
  /\ call = "mkTxParams" /\ pc = "done"
  /\ userParams.totalFee = Some(0) /\ userParams.feePerByte = Some(5000)

\* C9: lastRound is firstValid + validRounds exactly when both are supplied and
\* the raw lastRound otherwise; firstRound is firstValid when supplied and the
\* raw firstRound otherwise.
C9_ValidityWindow ==
  (call = "mkTxParams" /\ pc = "done") =>
    LET u == userParams
        r == result[1]
    IN /\ (u.firstValid # Undefined /\ u.validRounds # Undefined)
            => r.lastRound = u.firstValid[1] + u.validRounds[1]
       /\ (u.firstValid = Undefined \/ u.validRounds = Undefined)
            => r.lastRound = raw[1].lastRound
       /\ u.firstValid # Undefined => r.firstRound = u.firstValid[1]
       /\ u.firstValid = Undefined => r.firstRound = raw[1].firstRound

\* firstValid = 100 and validRounds = 50 resolve to lastRound = 150
C9_Witness ==
  /\ call = "mkTxParams" /\ pc = "done"
  /\ userParams.firstValid = Some(100) /\ userParams.validRounds = Some(50)
  /\ result[1].lastRound = 150

\* an undefined note and a note of zero bytes are the same empty note
SameNote(a, b) ==
  LET bytes(n) == IF n = Undefined THEN <<>> ELSE n[1] IN bytes(a) = bytes(b)

\* C10 (as claimed): a transaction-level note field that is present always wins,
\* the asset-definition note is used only when neither transaction-level field
\* is present, and the note is undefined when none of the four is present.
C10_Original ==
  (call = "makeAssetCreateTxn" /\ pc = "done") =>
    LET a == noteArgs
        note == result[1].note
        flagsPresent == a.flagsNote # Undefined \/ a.flagsNoteb64 # Undefined
        asaPresent == a.asaNote # Undefined \/ a.asaNoteb64 # Undefined
    IN /\ flagsPresent => SameNote(note, EncodeNote(a.flagsNote, a.flagsNoteb64))
       /\ (~flagsPresent /\ asaPresent) => SameNote(note, EncodeNote(a.asaNote, a.asaNoteb64))
       /\ (~flagsPresent /\ ~asaPresent) => note = Undefined

\* C11: with feePerByte set and totalFee absent the resolved params have
\* flatFee = false and fee = feePerByte, not raised to the minimum; with neither
\* set they have flatFee = false and fee = ALGORAND_MIN_TX_FEE.
C11_FeePerByte ==
  \A ur \in Resolved :
    ur[1].totalFee = Undefined =>
      /\ ur[2].flatFee = FALSE
      /\ ur[1].feePerByte # Undefined => ur[2].fee = ur[1].feePerByte[1]
      /\ ur[1].feePerByte = Undefined => ur[2].fee = ALGORAND_MIN_TX_FEE

\* feePerByte = 10, below the minimum, without totalFee
C11_Witness ==
  /\ call = "mkTxParams" /\ pc = "done"
  /\ userParams.totalFee = Undefined /\ userParams.feePerByte = Some(10)
  /\ result[1].fee = 10

Fetches == { k \in DOMAIN netLog : netLog[k].op = "getTransactionParams" }
Waits == { k \in DOMAIN netLog : netLog[k].op = "waitForConfirmation" }

\* C12: an executeTransaction call fetches the raw params exactly once, at its
\* start, whatever the number of transactions it builds.
C12_FetchOnce ==
  IsExec => Cardinality(Fetches) = IF pc = "fetch" THEN 0 ELSE 1

\* a group of sixteen transactions built after one fetch
C12_Witness ==
  IsExec /\ isList /\ Len(txns) = MaxGroupSize /\ Cardinality(Fetches) = 1

IsFile == call = "executeSignedTxnFromFile"

\* C14: executeSignedTxnFromFile fails with the file-not-found error, without
\* any network call, when the loader returns no blob; otherwise it submits the
\* loaded blob, unchanged and once, as a single blob, then waits, and never
\* fetches params, builds or signs.
C14_Replay ==
  IsFile =>
    /\ signedTxn = <<>> => pc = "failed" /\ err = "FileNotFound" /\ netLog = <<>>
    /\ signedTxn # <<>> => signedTxn \in LoadedFiles /\ err # "FileNotFound"
    /\ Fetches = {} /\ nMk = 0 /\ nSign = 0 /\ txns = <<>>
    /\ NumSends <= 1
    /\ \A k \in Sends : k = 1 /\ netLog[k].arg = [batched |-> FALSE, blobs |-> signedTxn]
    /\ \A k \in Waits : k = 2 /\ NumSends = 1
    /\ pc \in {"polling", "confirmed"} => NumSends = 1 /\ Cardinality(Waits) = 1

\* a replayed blob has been confirmed
C14_Witness ==
  IsFile /\ pc = "confirmed" /\ NumSends = 1

\* C15 (as claimed): params returned by getSuggestedParams, by mkTxParams on
\* fetched params, and the params of every build have firstRound >= 1.
C15_Original ==
  /\ (call = "getSuggestedParams" /\ pc = "done") => result[1].firstRound >= 1
  /\ (call = "mkTxParams" /\ pc = "done" /\ raw[1].firstRound >= 1) => result[1].firstRound >= 1
  /\ IsExec => \A i \in DOMAIN txns : txns[i].params.firstRound >= 1

\* C16: a call sends at most once, the blobs of a list as one array in the order
\* of the list, and waits at most once, right after the send, on the id the
\* send returned; a failed send or wait ends the call without another attempt.
C16_SendOnceWaitOnce ==
  (IsExec \/ IsFile) =>
    /\ NumSends <= 1 /\ Cardinality(Waits) <= 1
    /\ \A k \in Sends :
         /\ netLog[k].arg.batched = isList
         /\ netLog[k].arg.blobs = signedTxn
         /\ IsExec => \A i \in DOMAIN signedTxn : netLog[k].arg.blobs[i].txn.idx = i
    /\ \A k \in Waits :
         /\ k > 1 /\ netLog[k - 1].op = "sendRawTransaction"
         /\ txId # Undefined /\ netLog[k].arg = txId[1]
         /\ txId[1] = TxIdOf(netLog[k - 1].arg.blobs)
    /\ err = "SendFailed" => pc = "failed" /\ NumSends = 1 /\ Waits = {}
    /\ err = "ConfirmationTimeout" => pc = "failed" /\ NumSends = 1 /\ Cardinality(Waits) = 1

\* a group of two whose confirmation wait failed
C16_Witness ==
  /\ IsExec /\ isList /\ Len(execParams) = 2
  /\ pc = "failed" /\ err = "ConfirmationTimeout"

\* C17: once the submission succeeded, the call ends: with the confirmation, or
\* with a failure when the maximum number of rounds has elapsed.
C17_WaitTerminates ==
  (IsExec /\ pc = "wait") ~> (pc \in {"confirmed", "failed"})

\* the wait gave up after the maximum number of rounds
C17_Witness ==
  IsExec /\ pc = "failed" /\ err = "ConfirmationTimeout" /\ waited = MaxWaitRounds

\* C18: the builds leave the fetched snapshot unchanged, and the params of entry
\* j are those resolved from the fetched snapshot and the payFlags of entry j
\* alone, whatever was built before it.
C18_OwnCopy ==
  (IsExec /\ suggestedParams # Undefined) =>
    /\ suggestedParams = raw
    /\ \A j \in DOMAIN txns :
         LET u == execParams[j].payFlags
             r == txns[j].params
         IN /\ r.firstRound = IF u.firstValid # Undefined THEN u.firstValid[1]
                                ELSE raw[1].firstRound
            /\ r.lastRound = IF u.firstValid # Undefined /\ u.validRounds # Undefined
                               THEN u.firstValid[1] + u.validRounds[1]
                               ELSE raw[1].lastRound
            /\ r.flatFee = (u.totalFee # Undefined)
            /\ u = NoFlags => r.fee = ALGORAND_MIN_TX_FEE

\* an entry without overrides built after an entry that overrides fee and window
C18_Witness ==
  /\ IsExec /\ Len(txns) >= 2
  /\ execParams[1].payFlags.firstValid # Undefined
  /\ execParams[2].payFlags = NoFlags

\* C19 (as claimed): for raw params with firstRound <= lastRound, mkTxParams
\* returns firstRound <= lastRound.
C19_Original ==
  (raw # Undefined /\ raw[1].firstRound <= raw[1].lastRound) =>
    \A ur \in Resolved : ur[2].firstRound <= ur[2].lastRound

\* C19 (amended): the same, provided that a firstValid supplied without
\* validRounds does not exceed the raw lastRound.
C19_Window ==
  (raw # Undefined /\ raw[1].firstRound <= raw[1].lastRound) =>
    \A ur \in Resolved :
      (ur[1].firstValid # Undefined /\ ur[1].validRounds = Undefined
         => ur[1].firstValid[1] <= raw[1].lastRound)
      => ur[2].firstRound <= ur[2].lastRound

\* firstValid supplied without validRounds, inside the raw window
C19_Witness ==
  /\ call = "mkTxParams" /\ pc = "done"
  /\ userParams.firstValid = Some(100) /\ userParams.validRounds = Undefined
  /\ result[1].firstRound = 100

====
